---- MODULE Spec2Model ----
(***************************************************************************)
(* Model of Question1/subset-sum-solver.py: the field parser d(), the      *)
(* formatter numstr() and the row loop of main() with its bitmask search.  *)
(*                                                                         *)
(* A text is a sequence of one-character strings.  A Decimal is a record   *)
(* [ok, coef, exp] standing for coef * 10^exp (coef carries the sign);     *)
(* ok = FALSE is the ValueError that d() raises.  The values the bounded   *)
(* inputs produce have far fewer than the 50 significant digits of the     *)
(* decimal context, so every sum is exact, as it is in the program for     *)
(* such values.                                                            *)
(***************************************************************************)
EXTENDS Integers, Sequences, FiniteSets, TLC

\* ------------------------------------------------------------------ bounds
\* longest field text handed to d() in SpecD
MaxLen == 4
\* most records in an input file of Spec
MaxRows == 2
\* most fields in a record of Spec
MaxCols == 2
\* most candidates (fields after the target) in the record of SpecSolve
MaxPool == 3

\* ------------------------------------------------------------------- texts
Digits == {"0", "1", "2", "3", "4", "5", "6", "7", "8", "9"}

DigitVal(c) ==
    CASE c = "0" -> 0 [] c = "1" -> 1 [] c = "2" -> 2 [] c = "3" -> 3
      [] c = "4" -> 4 [] c = "5" -> 5 [] c = "6" -> 6 [] c = "7" -> 7
      [] c = "8" -> 8 [] c = "9" -> 9

DigitChar(k) ==
    CASE k = 0 -> "0" [] k = 1 -> "1" [] k = 2 -> "2" [] k = 3 -> "3"
      [] k = 4 -> "4" [] k = 5 -> "5" [] k = 6 -> "6" [] k = 7 -> "7"
      [] k = 8 -> "8" [] k = 9 -> "9"

\* str.count(c)
Count(x, c) == Cardinality({i \in 1..Len(x) : x[i] = c})

\* str.replace(a, b) for one-character a and b
Replace(x, a, b) == [i \in 1..Len(x) |-> IF x[i] = a THEN b ELSE x[i]]

\* str.strip(): drop the leading and the trailing whitespace
RECURSIVE LStrip(_)
LStrip(x) == IF x # <<>> /\ Head(x) = " " THEN LStrip(Tail(x)) ELSE x

RECURSIVE RStrip(_)
RStrip(x) ==
    IF x # <<>> /\ x[Len(x)] = " " THEN RStrip(SubSeq(x, 1, Len(x) - 1)) ELSE x

Strip(x) == RStrip(LStrip(x))

Pow10(k) == 10 ^ k

Abs(v) == IF v < 0 THEN -v ELSE v

Min(a, b) == IF a <= b THEN a ELSE b

\* ---------------------------------------------------------------- Decimal
Dec(c, e) == [ok |-> TRUE, coef |-> c, exp |-> e]

\* the ValueError of d(): no value
ValueError == [ok |-> FALSE, coef |-> 0, exp |-> 0]

\* Decimal(0)
Decimal0 == Dec(0, 0)

\* the coefficient of a at the exponent e <= a.exp
Scaled(a, e) == a.coef * Pow10(a.exp - e)

\* Decimal.__add__: exact, the result carries the smaller exponent
DecAdd(a, b) ==
    LET e == Min(a.exp, b.exp) IN Dec(Scaled(a, e) + Scaled(b, e), e)

\* Decimal.__gt__
DecGt(a, b) ==
    LET e == Min(a.exp, b.exp) IN Scaled(a, e) > Scaled(b, e)

\* Decimal.__eq__: numeric, 1.0 == 1
DecEq(a, b) ==
    LET e == Min(a.exp, b.exp) IN Scaled(a, e) = Scaled(b, e)

\* the digits of a text, read as a natural number
RECURSIVE DigitsValue(_)
DigitsValue(x) ==
    IF x = <<>> THEN 0
    ELSE 10 * DigitsValue(SubSeq(x, 1, Len(x) - 1)) + DigitVal(x[Len(x)])

\* Decimal(x) for a text x over the characters the model draws from (digits,
\* "-", ".", ",", " " and a letter): an optional sign, then digits with at
\* most one dot and at least one digit; anything else is InvalidOperation.
\* Exponents, "+", "_", Infinity and NaN need characters outside these.
DecimalParse(x) ==
    LET t    == Strip(x)
        neg  == t # <<>> /\ Head(t) = "-"
        body == IF neg THEN Tail(t) ELSE t
        dots == {i \in 1..Len(body) : body[i] = "."}
        digs == SelectSeq(body, LAMBDA c : c \in Digits)
        wellFormed ==
            /\ \A i \in 1..Len(body) : body[i] \in Digits \cup {"."}
            /\ Cardinality(dots) <= 1
            /\ Len(digs) >= 1
        frac == IF dots = {} THEN 0 ELSE Len(body) - (CHOOSE i \in dots : TRUE)
        mag  == DigitsValue(digs)
    IN  IF wellFormed THEN Dec(IF neg THEN -mag ELSE mag, -frac) ELSE ValueError

\* d(x) with every comma dropped when a dot is present (thousands separator)
dThousands(x) ==
    LET t == Strip(x)
        u == IF Count(t, ",") = 1 /\ Count(t, ".") = 0
             THEN Replace(t, ",", ".")
             ELSE SelectSeq(t, LAMBDA c : c # ",")
    IN  DecimalParse(u)

\* d(x): strip, turn a lone comma into a dot when there is no dot, parse
d(x) ==
    LET t == Strip(x)
        u == IF Count(t, ",") = 1 /\ Count(t, ".") = 0
             THEN Replace(t, ",", ".")
             ELSE t
    IN  DecimalParse(u)

\* ----------------------------------------------------------------- numstr
\* str(k) for a natural number k
RECURSIVE NatStr(_)
NatStr(k) ==
    IF k < 10 THEN <<DigitChar(k)>> ELSE NatStr(k \div 10) \o <<DigitChar(k % 10)>>

\* str(k) for an integer k
IntStr(k) == IF k < 0 THEN <<"-">> \o NatStr(-k) ELSE NatStr(k)

\* Decimal.normalize(): strip the trailing zeros of the coefficient
RECURSIVE Normalize(_)
Normalize(a) ==
    IF a.coef = 0 THEN Dec(0, 0)
    ELSE IF a.coef % 10 = 0 THEN Normalize(Dec(a.coef \div 10, a.exp + 1))
    ELSE a

\* k digits of zero
Zeros(k) == [i \in 1..k |-> "0"]

\* format(a, "f") for a normalized a with a.exp < 0
FixedStr(a) ==
    LET ds  == NatStr(Abs(a.coef))
        f   == -a.exp
        pad == IF Len(ds) <= f THEN Zeros(f + 1 - Len(ds)) \o ds ELSE ds
        txt == SubSeq(pad, 1, Len(pad) - f) \o <<".">>
                 \o SubSeq(pad, Len(pad) - f + 1, Len(pad))
    IN  IF a.coef < 0 THEN <<"-">> \o txt ELSE txt

\* x == x.to_integral_value()
IsIntegral(a) == a.exp >= 0 \/ a.coef % Pow10(-a.exp) = 0

\* int(x), truncating toward zero
IntOf(a) ==
    IF a.exp >= 0 THEN a.coef * Pow10(a.exp)
    ELSE IF a.coef >= 0 THEN a.coef \div Pow10(-a.exp)
    ELSE -((-a.coef) \div Pow10(-a.exp))

numstr(a) == IF IsIntegral(a) THEN IntStr(IntOf(a)) ELSE FixedStr(Normalize(a))

\* ------------------------------------------------------------ main: rows
\* field texts of the records of Spec: whitespace, a non-numeral, numerals
Tokens == {<<" ">>, <<"a">>, <<"1">>, <<"2">>}

\* field texts of the record of SpecSolve: also a negative numeral and a
\* numeral written with a decimal comma (a quoted csv field)
SolveTokens == Tokens \cup {<<"-", "1">>, <<"1", ",", "5">>}

SeqsUpTo(S, k) == UNION {[1..m -> S] : m \in 0..k}

\* what csv.reader can yield for the files of Spec
Files == SeqsUpTo(SeqsUpTo(Tokens, MaxCols), MaxRows)

\* the one-record files of SpecSolve
SolveFiles == {<<r>> : r \in SeqsUpTo(SolveTokens, MaxPool + 1)}

\* not row or all(not c.strip() for c in row), without the `not row` test
IsBlankNoEmpty(row) == row # <<>> /\ \A i \in 1..Len(row) : Strip(row[i]) = <<>>

\* not row or all(not c.strip() for c in row)
IsBlank(row) == row = <<>> \/ \A i \in 1..Len(row) : Strip(row[i]) = <<>>

\* nums = [d(c) for c in row]
Nums(row) == [i \in 1..Len(row) |-> d(row[i])]

\* the comprehension raises: some field is no numeral
Raises(row) == \E i \in 1..Len(row) : ~Nums(row)[i].ok

\* len(nums) < 2 tested before the fields are converted
RowCaseLenFirst(row) ==
    IF IsBlank(row) THEN "blank"
    ELSE IF Len(row) < 2 THEN "short"
    ELSE IF Raises(row) THEN "raise"
    ELSE "solve"

\* len(nums) < 1 in place of len(nums) < 2
RowCaseLt1(row) ==
    IF IsBlank(row) THEN "blank"
    ELSE IF Raises(row) THEN "raise"
    ELSE IF Len(Nums(row)) < 1 THEN "short"
    ELSE "solve"

\* the path main() takes for a record: the blank test, then the conversion
\* of every field, then the length test
RowCase(row) ==
    IF IsBlank(row) THEN "blank"
    ELSE IF Raises(row) THEN "raise"
    ELSE IF Len(Nums(row)) < 2 THEN "short"
    ELSE "solve"

\* ---------------------------------------------------------- main: search
\* mask & (1 << i), i counted from 0
Bit(m, i) == (m \div (2 ^ i)) % 2 = 1

\* range((1 << n) - 1): the last mask is never examined
NumMasksShort(k) == 2 ^ k - 1

\* 1 << n
NumMasks(k) == 2 ^ k

\* s >= target in place of s > target
ExceedsGe(sum, t) == DecGt(sum, t) \/ DecEq(sum, t)

\* s > target
Exceeds(sum, t) == DecGt(sum, t)

\* s >= best_sum in place of s > best_sum
ImprovesGe(isOk, sum, best) == isOk /\ (DecGt(sum, best) \/ DecEq(sum, best))

\* s > best_sum with the ok flag not consulted
ImprovesNoOk(isOk, sum, best) == DecGt(sum, best)

\* ok and s > best_sum
Improves(isOk, sum, best) == isOk /\ DecGt(sum, best)

\* the inner loop `for i in range(n)` from position i on, with the running
\* sum acc and the members sub collected so far; the break leaves s with
\* the element that overshot and subset without it
RECURSIVE Scan(_, _, _, _, _, _)
Scan(m, a, t, i, acc, sub) ==
    IF i = Len(a) THEN [ok |-> TRUE, s |-> acc, subset |-> sub]
    ELSE IF Bit(m, i)
         THEN LET acc2 == DecAdd(acc, a[i + 1])
              IN  IF Exceeds(acc2, t)
                  THEN [ok |-> FALSE, s |-> acc2, subset |-> sub]
                  ELSE Scan(m, a, t, i + 1, acc2, Append(sub, a[i + 1]))
         ELSE Scan(m, a, t, i + 1, acc, sub)

\* one pass of `for mask in range(1 << n)`: s, subset, ok start afresh
ScanMask(m, a, t) == Scan(m, a, t, 0, Decimal0, <<>>)

\* the stdout line of a row: its variable parts, each rendered by numstr
OutLine(k, best, sum, t) ==
    [idx |-> k,
     chosen |-> [j \in 1..Len(best) |-> numstr(best[j])],
     sum |-> numstr(sum),
     target |-> numstr(t)]

\* the stderr line of a short row
ErrLine(k) == [idx |-> k, msg |-> "ERROR need at least 1 big and 1 small number"]

\* ------------------------------------------------------------------ state
VARIABLES
    rows,         \* the records csv.reader yields, in file order
    idx,          \* enumerate(..., start=1): the index of the last record taken
    pc,           \* "loop" | "search" | "done" | "raised"
    target, arr, n,
    best_sum, best_subset,
    mask,         \* the next mask of range(1 << n)
    s, subset, ok,  \* as the inner loop left them for the last mask examined
    stdout, stderr,
    x, dres, dpc  \* one call of d(): its argument, its result, "call" | "return" | "raise"

vars == <<rows, idx, pc, target, arr, n, best_sum, best_subset, mask,
          s, subset, ok, stdout, stderr, x, dres, dpc>>

searchVars == <<target, arr, n, best_sum, best_subset, mask, s, subset, ok>>
dVars == <<x, dres, dpc>>

\* idx advanced only for the records that are not blank
RowNumberNonBlank(k) == Cardinality({j \in 1..k : ~IsBlank(rows[j])})

\* enumerate(csv.reader(f), start=1): the k-th record the reader yields is
\* numbered k, whatever main() does with the records before it
RowNumber(k) == k

\* best_sum carried over from the previous row instead of Decimal(0)
StaleBestSum == best_sum

\* best_sum = Decimal(0)
InitialBestSum == Decimal0

\* the locals of main() before the first row binds them
LocalsUnbound ==
    /\ idx = 0 /\ pc = "loop"
    /\ target = Decimal0 /\ arr = <<>> /\ n = 0
    /\ best_sum = Decimal0 /\ best_subset = <<>>
    /\ mask = 0 /\ s = Decimal0 /\ subset = <<>> /\ ok = TRUE
    /\ stdout = <<>> /\ stderr = <<>>

NoCall == x = <<>> /\ dres = ValueError /\ dpc = "idle"

Init == rows \in Files /\ LocalsUnbound /\ NoCall

SolveInit == rows \in SolveFiles /\ LocalsUnbound /\ NoCall

\* the record the for loop takes next
NextRow == rows[idx + 1]

HasNext == pc = "loop" /\ idx < Len(rows)

\* `continue` on an empty or all-whitespace record
SkipBlank ==
    /\ HasNext /\ RowCase(NextRow) = "blank"
    /\ idx' = idx + 1
    /\ UNCHANGED <<rows, pc, searchVars, stdout, stderr, dVars>>

\* d() raises ValueError inside the comprehension: main() is left, nothing
\* is printed for the record
RaiseValueError ==
    /\ HasNext /\ RowCase(NextRow) = "raise"
    /\ idx' = idx + 1
    /\ pc' = "raised"
    /\ UNCHANGED <<rows, searchVars, stdout, stderr, dVars>>

\* len(nums) < 2: the diagnostic on stderr, then `continue`
ShortRow ==
    /\ HasNext /\ RowCase(NextRow) = "short"
    /\ idx' = idx + 1
    /\ stderr' = Append(stderr, ErrLine(RowNumber(idx + 1)))
    /\ UNCHANGED <<rows, pc, searchVars, stdout, dVars>>

\* target, arr, best_sum, best_subset, n are bound; the mask loop starts
StartSearch ==
    /\ HasNext /\ RowCase(NextRow) = "solve"
    /\ idx' = idx + 1
    /\ target' = Nums(NextRow)[1]
    /\ arr' = Tail(Nums(NextRow))
    /\ best_sum' = InitialBestSum
    /\ best_subset' = <<>>
    /\ n' = Len(NextRow) - 1
    /\ mask' = 0
    /\ pc' = "search"
    /\ UNCHANGED <<rows, s, subset, ok, stdout, stderr, dVars>>

\* one iteration of the mask loop: the inner loop, then the update of best
ExamineMask ==
    /\ pc = "search" /\ mask < NumMasks(n)
    /\ LET r == ScanMask(mask, arr, target)
       IN  /\ s' = r.s /\ subset' = r.subset /\ ok' = r.ok
           /\ IF Improves(r.ok, r.s, best_sum)
              THEN best_sum' = r.s /\ best_subset' = r.subset
              ELSE UNCHANGED <<best_sum, best_subset>>
    /\ mask' = mask + 1
    /\ UNCHANGED <<rows, idx, pc, target, arr, n, stdout, stderr, dVars>>

\* the mask loop is exhausted: the row's line is printed
PrintRow ==
    /\ pc = "search" /\ mask >= NumMasks(n)
    /\ stdout' = Append(stdout, OutLine(RowNumber(idx), best_subset, best_sum, target))
    /\ pc' = "loop"
    /\ UNCHANGED <<rows, idx, searchVars, stderr, dVars>>

\* the for loop is exhausted: main() returns
Finish ==
    /\ pc = "loop" /\ idx = Len(rows)
    /\ pc' = "done"
    /\ UNCHANGED <<rows, idx, searchVars, stdout, stderr, dVars>>

Next ==
    \/ SkipBlank
    \/ RaiseValueError
    \/ ShortRow
    \/ StartSearch
    \/ ExamineMask
    \/ PrintRow
    \/ Finish

Spec == Init /\ [][Next]_vars

SolveSpec == SolveInit /\ [][Next]_vars

\* ------------------------------------------------------- one call of d()
Alphabet == {"1", "5", ",", ".", " ", "-", "a"}

Texts == SeqsUpTo(Alphabet, MaxLen)

mainVars == <<rows, idx, pc, searchVars, stdout, stderr>>

DInit == rows = <<>> /\ LocalsUnbound /\ x \in Texts /\ dres = ValueError /\ dpc = "call"

\* return Decimal(x)
DReturn ==
    /\ dpc = "call" /\ d(x).ok
    /\ dres' = d(x) /\ dpc' = "return"
    /\ UNCHANGED <<x, mainVars>>

\* raise ValueError
DRaise ==
    /\ dpc = "call" /\ ~d(x).ok
    /\ dres' = ValueError /\ dpc' = "raise"
    /\ UNCHANGED <<x, mainVars>>

DNext == DReturn \/ DRaise

SpecD == DInit /\ [][DNext]_vars

\* ------------------------------------------------- vocabulary of the claims
\* the members a mask selects, in pool order
RECURSIVE MembersFrom(_, _, _)
MembersFrom(m, a, i) ==
    IF i = Len(a) THEN <<>>
    ELSE IF Bit(m, i) THEN <<a[i + 1]>> \o MembersFrom(m, a, i + 1)
    ELSE MembersFrom(m, a, i + 1)

Members(m, a) == MembersFrom(m, a, 0)

RECURSIVE SeqSum(_)
SeqSum(q) == IF q = <<>> THEN Decimal0 ELSE DecAdd(Head(q), SeqSum(Tail(q)))

\* the sum of everything a mask selects, whether or not a prefix overshoots
FullSum(m, a) == SeqSum(Members(m, a))

AllMasks(a) == 0..(2 ^ Len(a) - 1)

DecLe(a, b) == ~DecGt(a, b)

NonNeg(v) == v.coef >= 0

NonNegPool == \A j \in 1..Len(arr) : NonNeg(arr[j])

\* a row is being searched, or the search of the last solved row has ended
\* and its locals still stand
Searching == pc = "search"
RowDone == pc # "search" /\ stdout # <<>>

\* the masks the loop has examined so far
Examined == 0..(mask - 1)

\* the search that sums every mask completely before comparing with target:
\* the best after masks 0..m-1
RECURSIVE UnprunedBest(_, _, _)
UnprunedBest(a, t, m) ==
    IF m = 0 THEN [sum |-> Decimal0, subset |-> <<>>]
    ELSE LET prev == UnprunedBest(a, t, m - 1)
             full == FullSum(m - 1, a)
         IN  IF DecLe(full, t) /\ DecGt(full, prev.sum)
             THEN [sum |-> full, subset |-> Members(m - 1, a)]
             ELSE prev

\* ----------------------------------------------------------------- C1
\* C1 as stated: for every row processed, when the search has ended no
\* subset of the pool has a sum <= target and > best_sum.
C1_OptimalAnyRow ==
    RowDone => \A m \in AllMasks(arr) :
                   ~(DecLe(FullSum(m, arr), target) /\ DecGt(FullSum(m, arr), best_sum))

\* C1 amended: for every row processed whose pool has no negative element,
\* when the search has ended no subset of the pool has a sum <= target and
\* > best_sum; when the target is not negative either, best_sum is itself
\* the sum of a subset and <= target, hence the maximum.
C1_OptimalNonNegPool ==
    (RowDone /\ NonNegPool) =>
        /\ \A m \in AllMasks(arr) :
               ~(DecLe(FullSum(m, arr), target) /\ DecGt(FullSum(m, arr), best_sum))
        /\ NonNeg(target) =>
               /\ DecLe(best_sum, target)
               /\ \E m \in AllMasks(arr) : DecEq(FullSum(m, arr), best_sum)

\* a solved row with a non-negative pool of three where the whole pool
\* overshoots and the best takes two members
C1_Witness ==
    /\ RowDone /\ NonNegPool /\ n = 3
    /\ DecGt(FullSum(7, arr), target)
    /\ Len(best_subset) = 2

\* ----------------------------------------------------------------- C2
\* C2 as stated: for every target and pool the parser accepts, best_sum <=
\* target from the initial empty best through the last mask.
C2_AdmissibleAnyTarget == (Searching \/ RowDone) => DecLe(best_sum, target)

\* C2 amended: for every pool and every target >= 0 the parser accepts,
\* best_sum <= target from the initial empty best through the last mask
\* (for a negative target best_sum stays 0, above the target).
C2_AdmissibleNonNegTarget ==
    /\ ((Searching \/ RowDone) /\ NonNeg(target)) => DecLe(best_sum, target)
    /\ ((Searching \/ RowDone) /\ ~NonNeg(target)) => best_sum = Decimal0

\* the mask just examined was abandoned while a positive best stands
C2_Witness ==
    /\ Searching /\ mask >= 1 /\ ~ok /\ NonNeg(target)
    /\ DecGt(best_sum, Decimal0)

\* ----------------------------------------------------------------- C3
\* a mask the inner loop runs through without the break: no running sum,
\* taken from the lowest selected position upward, exceeds the target
Completes(m, a, t) ==
    \A k \in 1..Len(Members(m, a)) : DecLe(SeqSum(SubSeq(Members(m, a), 1, k)), t)

\* the examined masks that complete with the sum that best_sum holds
Reaching == {m \in Examined : Completes(m, arr, target) /\ DecEq(FullSum(m, arr), best_sum)}

C3_SmallestMaskWins ==
    ((Searching \/ RowDone) /\ mask >= 1) =>
        \E m \in Reaching :
            /\ \A m2 \in Reaching : m <= m2
            /\ best_subset = Members(m, arr)
            /\ DecEq(best_sum, Decimal0) => m = 0

C3_StrictReplacement ==
    (pc = "search" /\ pc' = "search") =>
        /\ mask' = mask + 1
        /\ (best_sum' # best_sum \/ best_subset' # best_subset) =>
               (ok' /\ DecGt(s', best_sum) /\ best_sum' = s' /\ best_subset' = subset')

\* C3: masks are examined in increasing order and best is replaced only by
\* a mask that completes with a strictly greater sum, so among the masks
\* that complete with the sum held as best the smallest is the one whose
\* members are held (mask 0, the empty subset, when that sum is 0).
C3_TieBreak == [][C3_StrictReplacement]_vars /\ []C3_SmallestMaskWins

\* a solved row where two masks with different members complete with the
\* reported sum, and the smaller one is reported
C3_Witness ==
    /\ RowDone
    /\ \E m1, m2 \in Reaching :
           /\ m1 < m2
           /\ Members(m1, arr) # Members(m2, arr)
           /\ best_subset = Members(m1, arr)

\* ----------------------------------------------------------------- C9
\* the early exit took the last examined mask exactly when its full sum
\* exceeds the target, and the finished search agrees with the unpruned one
PruningIsExact ==
    /\ ((Searching \/ RowDone) /\ mask >= 1) =>
           (~ok <=> DecGt(FullSum(mask - 1, arr), target))
    /\ RowDone =>
           /\ DecEq(best_sum, UnprunedBest(arr, target, 2 ^ Len(arr)).sum)
           /\ best_subset = UnprunedBest(arr, target, 2 ^ Len(arr)).subset

\* C9 as stated: for every target and pool, a mask is abandoned exactly
\* when its full sum exceeds target, and the search ends with the best of
\* the search without early abandonment.
C9_PruningAnyPool == PruningIsExact

\* C9 amended: for every target >= 0 and every pool without a negative
\* element, a mask is abandoned exactly when its full sum exceeds target,
\* and the search ends with the best of the search without early
\* abandonment.
C9_PruningNonNeg == (NonNeg(target) /\ NonNegPool) => PruningIsExact

\* a solved row with a non-negative target and pool in which some mask was
\* abandoned before its last selected position
C9_Witness ==
    /\ RowDone /\ NonNeg(target) /\ NonNegPool /\ n = 3 /\ ~ok
    /\ Len(subset) + 1 < Len(Members(mask - 1, arr))

\* ---------------------------------------------------------------- C10
C10_BestIsExaminedMask ==
    ((Searching \/ RowDone) /\ mask >= 1) =>
        /\ \E m \in Examined : best_subset = Members(m, arr)
        /\ DecEq(SeqSum(best_subset), best_sum)

C10_AbandonedNotStored ==
    (pc = "search" /\ pc' = "search" /\ ~ok') =>
        (best_sum' = best_sum /\ best_subset' = best_subset)

\* C10: after every mask examined best_subset is the members, in pool
\* order, of a mask already examined and their sum is best_sum; a step that
\* abandons its mask leaves best as it was.
C10_BestConsistent == []C10_BestIsExaminedMask /\ [][C10_AbandonedNotStored]_vars

\* a mask was just abandoned with a partial subset that is not the best,
\* the best being the non-empty members of an earlier mask
C10_Witness ==
    /\ Searching /\ mask >= 2 /\ ~ok
    /\ subset # <<>> /\ subset # best_subset /\ best_subset # <<>>

\* ------------------------------------------------- rows and their lines
\* some field of the row holds something other than whitespace
NonBlank(row) == \E i \in 1..Len(row) : Strip(row[i]) # <<>>

\* some field of the row is no decimal numeral
HasBadField(row) == \E i \in 1..Len(row) : ~d(row[i]).ok

\* positions of the lines a stream holds for row k
LinesAt(stream, k) == {i \in 1..Len(stream) : stream[i].idx = k}

IsPrefix(p, q) == Len(p) <= Len(q) /\ SubSeq(q, 1, Len(p)) = p

\* what a taken short row k must show: one diagnostic, nothing on stdout,
\* the run not stopped at it
ShortRowRecovered(k) ==
    /\ Cardinality(LinesAt(stderr, k)) = 1
    /\ \A i \in LinesAt(stderr, k) : stderr[i] = ErrLine(k)
    /\ LinesAt(stdout, k) = {}
    /\ ~(pc = "raised" /\ idx = k)
    /\ pc = "done" => idx = Len(rows)

C5_AbortsAtBadRow ==
    \A k \in 1..idx :
        (NonBlank(rows[k]) /\ HasBadField(rows[k])) =>
            /\ pc = "raised" /\ idx = k
            /\ \A i \in 1..Len(stdout) : stdout[i].idx < k
            /\ \A i \in 1..Len(stderr) : stderr[i].idx < k

C5_LinesKept == IsPrefix(stdout, stdout') /\ IsPrefix(stderr, stderr')

\* C5: a non-blank row with a field that is no decimal numeral stops the
\* run at that row with no line on stdout or stderr for it or for any later
\* row, and every step leaves the lines already emitted in place.
C5_FatalParse == []C5_AbortsAtBadRow /\ [][C5_LinesKept]_vars

\* the run stopped at row 2 with the line of row 1 on stdout
C5_Witness ==
    /\ pc = "raised" /\ idx = 2 /\ Len(rows[2]) = 2
    /\ Len(stdout) = 1 /\ stdout[1].idx = 1

\* ----------------------------------------------------------------- C6
\* the rows with at least 2 fields, all of them numerals
GoodRows == {k \in 1..Len(rows) : Len(rows[k]) >= 2 /\ ~HasBadField(rows[k])}

RECURSIVE RowBest(_, _, _)
RowBest(a, t, m) ==
    IF m = 0 THEN [sum |-> Decimal0, subset |-> <<>>]
    ELSE LET prev == RowBest(a, t, m - 1)
             r    == ScanMask(m - 1, a, t)
         IN  IF r.ok /\ DecGt(r.s, prev.sum)
             THEN [sum |-> r.s, subset |-> r.subset]
             ELSE prev

\* the line of row k as a function of k and the row's own fields
RowLine(k, row) ==
    LET t == d(row[1])
        a == [j \in 1..(Len(row) - 1) |-> d(row[j + 1])]
        b == RowBest(a, t, 2 ^ Len(a))
    IN  OutLine(k, b.subset, b.sum, t)

\* C7: every line on stdout is determined by its row's index and fields
\* alone, whatever the other rows of the file are, and every search starts
\* from best_sum 0 and the empty best_subset.
C7_RowIndependence ==
    /\ \A i \in 1..Len(stdout) : stdout[i] = RowLine(stdout[i].idx, rows[stdout[i].idx])
    /\ (pc = "search" /\ mask = 0) => (best_sum = Decimal0 /\ best_subset = <<>>)

\* two rows were solved, the second reaching a smaller sum than the first
C7_Witness ==
    /\ Len(stdout) = 2
    /\ stdout[1].sum = <<"2">> /\ stdout[2].sum = <<"1">>

\* ----------------------------------------------------------------- C8
SameOutcome(a, b) == a.ok = b.ok /\ (a.ok => DecEq(a, b))

\* C8: a field with exactly one comma and no dot parses as the field with
\* the comma replaced by a dot; a field with a dot, or with no or several
\* commas, is parsed as it stands, so it fails when it holds a comma.
C8_LocaleConversion ==
    dpc # "call" =>
        /\ (Count(x, ",") = 1 /\ Count(x, ".") = 0) =>
               SameOutcome(dres, d(Replace(x, ",", ".")))
        /\ (Count(x, ".") >= 1 \/ Count(x, ",") # 1) =>
               /\ SameOutcome(dres, DecimalParse(x))
               /\ Count(x, ",") >= 1 => ~dres.ok

\* d("1,5") returned 1.5
C8_Witness == dpc = "return" /\ x = <<"1", ",", "5">> /\ DecEq(dres, Dec(15, -1))

\* ---------------------------------------------------------------- C11
\* the numbers a stream's lines carry, in emission order
IdxOf(stream) == [i \in 1..Len(stream) |-> stream[i].idx]

\* q lists the members of S in increasing order
Enumerates(q, S) ==
    /\ Len(q) = Cardinality(S)
    /\ {q[i] : i \in 1..Len(q)} = S
    /\ \A i, j \in 1..Len(q) : i < j => q[i] < q[j]

\* positions, among all records of the file, of the rows whose line is out:
\* solved rows taken so far, bar the one still being searched
PrintedRows ==
    {k \in 1..idx : /\ Len(rows[k]) >= 2 /\ ~HasBadField(rows[k])
                    /\ ~(pc = "search" /\ k = idx)}

\* positions of the one-field numeral rows taken so far
DiagnosedRows ==
    {k \in 1..idx : NonBlank(rows[k]) /\ Len(rows[k]) < 2 /\ ~HasBadField(rows[k])}

\* C11: the <idx> of every stdout line and stderr diagnostic is the row's
\* 1-based position among all records of the input, blank and short rows
\* before it counted, so the indices of the emitted lines are strictly
\* increasing without having to be consecutive.
C11_RowNumbering ==
    /\ Enumerates(IdxOf(stdout), PrintedRows)
    /\ Enumerates(IdxOf(stderr), DiagnosedRows)

\* the only line out is that of record 2, record 1 being two whitespace
\* fields that were skipped
C11_Witness ==
    /\ Len(rows) = 2 /\ Len(rows[1]) = 2 /\ ~NonBlank(rows[1])
    /\ Len(stdout) = 1 /\ stdout[1].idx = 2 /\ stderr = <<>>

====
